---- MODULE Spec2Model ----
(***************************************************************************)
(* A model of src/no-response.ts (class NoResponse): the three workflows   *)
(* sweep, unmark and removeLabels, run against a remote issue service.     *)
(* Every awaited remote call is one step of its workflow (the step that    *)
(* receives the response); a call that the code does not await (close in   *)
(* sweep, createLabel in ensureLabelExists, the reopening update in        *)
(* unmark) stays in flight and completes in a step of its own.             *)
(***************************************************************************)
EXTENDS Integers, Sequences, FiniteSets, TLC

\* ---------------------------------------------------------------- bounds
NumIssues == 3      \* issues of the repository
PerPage == 2        \* page size of the search (per_page: 30 in the source, scaled)
MaxDays == 3        \* the clock runs from day 0 to day MaxDays
MaxLabelings == 2   \* times responseRequiredLabel is applied to one issue

\* ------------------------------------------------------------- constants
Issue == 1..NumIssues
AuthorLogin == "author"         \* payload.issue.user.login / issueInfo.data.user.login
MaintLogin == "maint"           \* any other user
BotLogin == "bot"               \* the account of config.token
NoLogin == "none"               \* closed_by of an issue that is not closed
Users == {AuthorLogin, MaintLogin}

RRLabel == "response-required"  \* config.responseRequiredLabel
FULabel == "follow-up"          \* config.optionalFollowUpLabel when configured
OldLabel == "needs-info"        \* the name responseRequiredLabel had before a rename
NoLabel == ""                   \* optionalFollowUpLabel not configured (falsy)
Labels == {RRLabel, FULabel}

DaysChoices == {1, 2}           \* config.daysUntilClose
MsPerDay == 24 * 60 * 60 * 1000

VARIABLES
  now,         \* new Date().getTime(), in ms
  config,      \* this.config: daysUntilClose, closeComment, optionalFollowUpLabel
  issues,      \* remote: issue number -> state, closed_by, labels, events, updated
  repoLabels,  \* remote: the labels that exist on the repository
  sPc,         \* sweep: position
  sNow,        \* sweep: the time since() read
  sThreshold,  \* sweep: labeledEarlierThan
  sItems,      \* sweep: issues.data.items (issue numbers in search order)
  sFilter,     \* sweep: per issue, the state of its filter callback
  sClose,      \* sweep: per issue, the state of its un-awaited close()
  sCreate,     \* sweep: the un-awaited createLabel of ensureLabelExists
  sCalls,      \* sweep: mutating calls issued by this invocation, in order
  sBeyond,     \* sweep: open labelled issues existed beyond the page the search returned
  sRepeat,     \* sweep: "no", or how the run this one directly follows ended
  uPc,         \* unmark: position
  uPayload,    \* unmark: payload (issue number, comment.user.login)
  uInfo,       \* unmark: issueInfo.data
  uCreate,     \* unmark: the un-awaited createLabel of ensureLabelExists
  uReopen,     \* unmark: the un-awaited update({state: 'open'})
  uCalls,      \* unmark: mutating calls issued by this invocation, in order
  uPre,        \* unmark: the issue as it was when the invocation started
  rPc,         \* removeLabels: position
  rPayload,    \* removeLabels: payload (action, issue number, sender.login)
  rLabels,     \* removeLabels: plainLabels
  rCalls,      \* removeLabels: mutating calls issued by this invocation, in order
  rPre,        \* removeLabels: the issue as it was when the invocation started
  afterSweep   \* "no", or how the sweep run ended after which nothing has happened yet

remoteVars == <<issues, repoLabels>>
sweepVars == <<sPc, sNow, sThreshold, sItems, sFilter, sClose, sCreate, sCalls, sBeyond, sRepeat>>
unmarkVars == <<uPc, uPayload, uInfo, uCreate, uReopen, uCalls, uPre>>
removeVars == <<rPc, rPayload, rLabels, rCalls, rPre>>
vars == <<now, config, issues, repoLabels, sweepVars, unmarkVars, removeVars, afterSweep>>

\* ----------------------------------------------------------------- data
\* interface LabeledEvent
LabeledEvent(t, kind, name) == [created_at |-> t, event |-> kind, label |-> name]

Call(op, i, name) == [op |-> op, issue |-> i, label |-> name]

FreshIssue ==
  [state |-> "open", closed_by |-> NoLogin, labels |-> {}, events |-> <<>>, updated |-> 0]

\* An issue that carries responseRequiredLabel although no event of its history
\* names it: the label was renamed after it was applied (events keep the old name).
RenamedIssue ==
  [state |-> "open", closed_by |-> NoLogin, labels |-> {RRLabel},
   events |-> <<LabeledEvent(0, "labeled", OldLabel)>>, updated |-> 0]

\* an issue number the repository does not hold
AbsentIssue ==
  [state |-> "absent", closed_by |-> NoLogin, labels |-> {}, events |-> <<>>, updated |-> 0]

NoCalls == <<>>
NoPayload == [issue |-> 0, user |-> NoLogin]
NoInfo == [user |-> NoLogin, state |-> "open", closed_by |-> NoLogin]
NoClosePayload == [action |-> "none", issue |-> 0, sender |-> NoLogin]

Range(s) == {s[k] : k \in 1..Len(s)}

\* ------------------------------------------------------- pure functions
\* since with the operands of the subtraction exchanged
sinceSwapped(days, t) == days * 24 * 60 * 60 * 1000 - t

\* since(days), with the clock reading passed in
since(days, t) == t - days * 24 * 60 * 60 * 1000

\* Array.prototype.reverse
Reverse(s) == [k \in 1..Len(s) |-> s[Len(s) + 1 - k]]

\* what Array.prototype.find returns when no element matches
Undefined == [created_at |-> -1, event |-> "undefined", label |-> NoLabel]

\* findLastLabeledEvent without the reverse(): the first matching event
findFirstLabeledEvent(events) ==
  LET hits == {k \in 1..Len(events) :
                 events[k].event = "labeled" /\ events[k].label = RRLabel}
  IN  IF hits = {} THEN Undefined
      ELSE events[CHOOSE k \in hits : \A j \in hits : k <= j]

\* findLastLabeledEvent without the test of the label's name
findLastEventLabeled(events) ==
  LET r == Reverse(events)
      hits == {k \in 1..Len(r) : r[k].event = "labeled"}
  IN  IF hits = {} THEN Undefined
      ELSE r[CHOOSE k \in hits : \A j \in hits : k <= j]

\* findLastLabeledEvent, on the events the remote returned
findLastLabeledEvent(events) ==
  LET r == Reverse(events)
      hits == {k \in 1..Len(r) : r[k].event = "labeled" /\ r[k].label = RRLabel}
  IN  IF hits = {} THEN Undefined
      ELSE r[CHOOSE k \in hits : \A j \in hits : k <= j]

\* the filter callback with <= for <
FilterKeepInclusive(events, labeledEarlierThan) ==
  LET event == findLastLabeledEvent(events)
  IN  IF event = Undefined THEN FALSE
      ELSE event.created_at <= labeledEarlierThan

\* the filter callback of getCloseableIssues, on the events of one issue
FilterKeep(events, labeledEarlierThan) ==
  LET event == findLastLabeledEvent(events)
  IN  IF event = Undefined THEN FALSE
      ELSE event.created_at < labeledEarlierThan

\* hasResponseRequiredLabel, on the labels the remote returned
hasResponseRequiredLabel(labels) == RRLabel \in labels

\* the condition of unmark without the test of the commenter
UnmarkGuardAnyone(isMarked, info, commenter) == isMarked

\* the condition under which unmark acts (line 113)
UnmarkGuard(isMarked, info, commenter) == isMarked /\ info.user = commenter

\* the condition of the reopening with === for !==
ReopenGuardInverted(info) == info.state = "closed" /\ info.user = info.closed_by

\* the condition of the reopening without the test of the closer
ReopenGuardAnyCloser(info) == info.state = "closed"

\* the condition under which unmark reopens (lines 133-136)
ReopenGuard(info) == info.state = "closed" /\ info.user # info.closed_by

\* removeLabels: the early returns before the closer is looked at (lines 62-68)
RemoveLabelsProceeds(cfg, payload) ==
  cfg.optionalFollowUpLabel # NoLabel /\ payload.action = "closed"

\* the test of removeLabels without the comparison of closer and author
ClosedByAnyone(payload) == payload.action = "closed"

\* removeLabels: the closer is the issue's author (line 75)
ClosedByAuthor(payload) == payload.action = "closed" /\ AuthorLogin = payload.sender

\* ------------------------------------------------------- remote service
\* the search query without is:open
IsCandidateAnyState(iss) == RRLabel \in iss.labels

\* the search query of getCloseableIssues: is:issue is:open label:"..."
IsCandidate(iss) == iss.state = "open" /\ RRLabel \in iss.labels

\* sort: 'updated', order: 'asc' (equal update times: by issue number)
Before(i, j) ==
  \/ issues[i].updated < issues[j].updated
  \/ issues[i].updated = issues[j].updated /\ i <= j

RECURSIVE SortByUpdated(_)
SortByUpdated(S) ==
  IF S = {} THEN <<>>
  ELSE LET m == CHOOSE i \in S : \A j \in S : Before(i, j)
       IN  <<m>> \o SortByUpdated(S \ {m})

Take(s, n) == IF Len(s) <= n THEN s ELSE SubSeq(s, 1, n)

\* search.issuesAndPullRequests({q, sort, order, per_page})
SearchItems == Take(SortByUpdated({i \in Issue : IsCandidate(issues[i])}), PerPage)

\* the remote adds a label to an issue (no event when it is already there)
WithLabel(iss, name, t) ==
  IF name \in iss.labels THEN iss
  ELSE [iss EXCEPT !.labels = @ \cup {name},
                   !.events = Append(@, LabeledEvent(t, "labeled", name)),
                   !.updated = t]

\* the remote removes a label from an issue
WithoutLabel(iss, name, t) ==
  IF name \notin iss.labels THEN iss
  ELSE [iss EXCEPT !.labels = @ \ {name},
                   !.events = Append(@, LabeledEvent(t, "unlabeled", name)),
                   !.updated = t]

\* the remote closes an issue (update with state: 'closed', or a user's close)
Closed(iss, who, t) ==
  IF iss.state = "closed" THEN iss
  ELSE [iss EXCEPT !.state = "closed", !.closed_by = who, !.updated = t]

\* the remote opens an issue (update with state: 'open', or a user's reopen)
Reopened(iss, t) ==
  IF iss.state = "open" THEN iss
  ELSE [iss EXCEPT !.state = "open", !.closed_by = NoLogin, !.updated = t]

\* the remote adds a comment to an issue
Commented(iss, t) == [iss EXCEPT !.updated = t]

\* ----------------------------------------------------------------- init
Idle(pc) == pc \in {"idle", "done", "failed"}
Landed(call) == call \in {"none", "done", "failed"}

\* no invocation is running and none of its calls is in flight
SweepQuiet == Idle(sPc) /\ Landed(sCreate) /\ \A i \in Issue : Landed(sClose[i])
UnmarkQuiet == Idle(uPc) /\ Landed(uCreate) /\ Landed(uReopen)
RemoveQuiet == Idle(rPc)
Quiet == SweepQuiet /\ UnmarkQuiet /\ RemoveQuiet

\* the variables of a workflow that is not running (nothing of an invocation
\* outlives it), as a predicate on the value each variable takes
SweepIdle(pc, n, thr, items, filter, close, create, calls, beyond, repeat) ==
  /\ pc = "idle" /\ n = 0 /\ thr = 0 /\ items = <<>>
  /\ filter = [i \in Issue |-> "none"]
  /\ close = [i \in Issue |-> "none"]
  /\ create = "none" /\ calls = NoCalls /\ beyond = FALSE /\ repeat = "no"

UnmarkIdle(pc, payload, info, create, reopen, calls, pre) ==
  /\ pc = "idle" /\ payload = NoPayload /\ info = NoInfo
  /\ create = "none" /\ reopen = "none" /\ calls = NoCalls /\ pre = FreshIssue

RemoveIdle(pc, payload, labels, calls, pre) ==
  /\ pc = "idle" /\ payload = NoClosePayload /\ labels = {}
  /\ calls = NoCalls /\ pre = FreshIssue

\* an invocation that has ended, with all its calls, is gone
ForgetSweep ==
  IF SweepQuiet
  THEN SweepIdle(sPc', sNow', sThreshold', sItems', sFilter', sClose', sCreate', sCalls',
                 sBeyond', sRepeat')
  ELSE UNCHANGED sweepVars
ForgetUnmark ==
  IF UnmarkQuiet
  THEN UnmarkIdle(uPc', uPayload', uInfo', uCreate', uReopen', uCalls', uPre')
  ELSE UNCHANGED unmarkVars
ForgetRemove ==
  IF RemoveQuiet
  THEN RemoveIdle(rPc', rPayload', rLabels', rCalls', rPre')
  ELSE UNCHANGED removeVars

Configs ==
  [daysUntilClose : DaysChoices, closeComment : BOOLEAN,
   optionalFollowUpLabel : {NoLabel, FULabel}]

\* the state after construction, for a repository whose issues are drawn from
\* `population`, a configuration drawn from `configs`, and labels of the
\* repository among `labels`
InitOf(population, configs, labels) ==
  /\ now = 0
  /\ config \in configs
  /\ repoLabels \in SUBSET labels
  /\ issues \in population
  /\ \A i \in Issue : issues[i].labels \subseteq repoLabels
  /\ SweepIdle(sPc, sNow, sThreshold, sItems, sFilter, sClose, sCreate, sCalls, sBeyond,
               sRepeat)
  /\ UnmarkIdle(uPc, uPayload, uInfo, uCreate, uReopen, uCalls, uPre)
  /\ RemoveIdle(rPc, rPayload, rLabels, rCalls, rPre)
  /\ afterSweep = "no"

Init == InitOf([Issue -> {FreshIssue, RenamedIssue, AbsentIssue}], Configs, Labels)

\* the repositories in which exactly the issues of `live` exist
Population(live) ==
  {p \in [Issue -> {FreshIssue, RenamedIssue, AbsentIssue}] :
     \A i \in Issue : (p[i] = AbsentIssue) <=> (i \notin live)}

\* sweep does not read optionalFollowUpLabel; one day until close
SweepConfigs ==
  {c \in Configs : c.optionalFollowUpLabel = NoLabel /\ c.daysUntilClose = 1}

\* a repository whose issues all fit in one page of the search
InitSweep == InitOf(Population({i \in Issue : i <= PerPage}), SweepConfigs, {RRLabel})

\* a repository with more issues than one page of the search holds
InitPage == InitOf(Population(Issue), SweepConfigs, {RRLabel})

\* a repository of one issue, with and without follow-up label configured
InitSerial ==
  InitOf(Population({1}), {c \in Configs : c.daysUntilClose = 1 /\ c.closeComment},
         Labels)

\* ---------------------------------------------------------------- sweep
\* the run ended and every call it issued succeeded
SweepSucceeded ==
  /\ sPc = "done"
  /\ sCreate \in {"none", "done"}
  /\ \A i \in Issue : sClose[i] \in {"none", "done"}

\* how this step leaves the run, for the run that may directly follow it
AfterSweep ==
  afterSweep' = IF SweepQuiet' /\ SweepSucceeded'
                THEN (IF sBeyond' THEN "capped" ELSE "whole") ELSE "no"

\* close(issue) without the comment block: update is the call it issues first
FirstCloseCallUpdate(cfg) == "update"

\* close(issue) up to its first await: the call it issues first
FirstCloseCall(cfg) == IF cfg.closeComment THEN "createComment" ELSE "update"

\* the calls of `for (const issue of issues) this.close(...)`, in order
RECURSIVE CloseCalls(_, _)
CloseCalls(kept, cfg) ==
  IF kept = <<>> THEN <<>>
  ELSE <<Call(FirstCloseCall(cfg), Head(kept), NoLabel)>> \o CloseCalls(Tail(kept), cfg)

\* Array order of the items the filter kept
RECURSIVE Kept(_, _)
Kept(items, filter) ==
  IF items = <<>> THEN <<>>
  ELSE (IF filter[Head(items)] = "keep" THEN <<Head(items)>> ELSE <<>>)
       \o Kept(Tail(items), filter)

\* sweep(): debug, then ensureLabelExists issues getLabel
SweepStart ==
  /\ Idle(sPc) /\ Landed(sCreate) /\ \A i \in Issue : Landed(sClose[i])
  /\ sPc' = "getLabel"
  /\ sRepeat' = afterSweep
  /\ sNow' = 0 /\ sThreshold' = 0 /\ sItems' = <<>> /\ sBeyond' = FALSE
  /\ sFilter' = [i \in Issue |-> "none"]
  /\ sClose' = [i \in Issue |-> "none"]
  /\ sCreate' = "none" /\ sCalls' = NoCalls
  /\ afterSweep' = "no"
  /\ ForgetUnmark /\ ForgetRemove
  /\ UNCHANGED <<now, config, remoteVars>>

\* ensureLabelExists: getLabel answers; on any error createLabel is issued and
\* not awaited. Then getCloseableIssues reads the clock and issues the search.
SweepGetLabelResp(fault) ==
  /\ sPc = "getLabel"
  /\ IF ~fault /\ RRLabel \in repoLabels
     THEN UNCHANGED <<sCreate, sCalls>>
     ELSE /\ sCreate' = "inflight"
          /\ sCalls' = Append(sCalls, Call("createLabel", 0, RRLabel))
  /\ sNow' = now
  /\ sThreshold' = since(config.daysUntilClose, now)
  /\ sPc' = "search"
  /\ afterSweep' = "no"
  /\ UNCHANGED <<now, config, remoteVars, sItems, sFilter, sClose, sBeyond, sRepeat,
                 unmarkVars, removeVars>>

\* the loop of sweep over the kept issues: each close() runs to its first await
StartCloses(items, filter) ==
  LET kept == Kept(items, filter)
  IN  /\ sClose' = [i \in Issue |->
                      IF i \in Range(kept)
                      THEN (IF config.closeComment THEN "comment" ELSE "update")
                      ELSE "none"]
      /\ sCalls' = sCalls \o CloseCalls(kept, config)
      /\ sPc' = "done"

\* the search answers; the filter callbacks start (one listEvents per item)
SweepSearchResp(fault) ==
  /\ sPc = "search"
  /\ IF fault
     THEN /\ sPc' = "failed"
          /\ UNCHANGED <<sItems, sFilter, sClose, sCalls, sBeyond>>
     ELSE /\ sItems' = SearchItems
          /\ sBeyond' = (Cardinality({i \in Issue : IsCandidate(issues[i])}) > PerPage)
          /\ sFilter' = [i \in Issue |-> IF i \in Range(SearchItems) THEN "pending" ELSE "none"]
          /\ IF SearchItems = <<>>
             THEN StartCloses(<<>>, sFilter')
             ELSE sPc' = "filter" /\ UNCHANGED <<sClose, sCalls>>
  /\ UNCHANGED <<now, config, remoteVars, sNow, sThreshold, sCreate, sRepeat,
                 unmarkVars, removeVars>>
  /\ AfterSweep

\* findLastLabeledEvent of one item answers and its filter callback returns;
\* when the last one has, toArray resolves and sweep starts the closes. A
\* callback that rejects makes the stream's toArray reject: the await of
\* getCloseableIssues in sweep throws and sweep ends without starting a close.
SweepEventsResp(i, fault) ==
  /\ sPc = "filter" /\ sFilter[i] = "pending"
  /\ IF fault
     THEN /\ sPc' = "failed"
          /\ sFilter' = [sFilter EXCEPT ![i] = "failed"]
          /\ UNCHANGED <<sClose, sCalls>>
     ELSE /\ sFilter' = [sFilter EXCEPT ![i] =
                IF FilterKeep(issues[i].events, sThreshold) THEN "keep" ELSE "drop"]
          /\ IF \A j \in Issue : sFilter'[j] # "pending"
             THEN StartCloses(sItems, sFilter')
             ELSE UNCHANGED <<sPc, sClose, sCalls>>
  /\ UNCHANGED <<now, config, remoteVars, sNow, sThreshold, sItems, sCreate, sBeyond,
                 sRepeat, unmarkVars, removeVars>>
  /\ AfterSweep

\* close(): createComment answers, then update({state: 'closed'}) is issued
CloseCommentResp(i, fault) ==
  /\ sClose[i] = "comment"
  /\ IF fault
     THEN /\ sClose' = [sClose EXCEPT ![i] = "failed"]
          /\ UNCHANGED <<issues, sCalls>>
     ELSE /\ issues' = [issues EXCEPT ![i] = Commented(@, now)]
          /\ sClose' = [sClose EXCEPT ![i] = "update"]
          /\ sCalls' = Append(sCalls, Call("update", i, NoLabel))
  /\ UNCHANGED <<now, config, repoLabels, sPc, sNow, sThreshold, sItems, sFilter,
                 sCreate, sBeyond, sRepeat, unmarkVars, removeVars>>
  /\ AfterSweep

\* close(): update({state: 'closed', state_reason: 'inactivity'}) answers
CloseUpdateResp(i, fault) ==
  /\ sClose[i] = "update"
  /\ IF fault
     THEN /\ sClose' = [sClose EXCEPT ![i] = "failed"]
          /\ UNCHANGED issues
     ELSE /\ issues' = [issues EXCEPT ![i] = Closed(@, BotLogin, now)]
          /\ sClose' = [sClose EXCEPT ![i] = "done"]
  /\ UNCHANGED <<now, config, repoLabels, sPc, sNow, sThreshold, sItems, sFilter,
                 sCreate, sCalls, sBeyond, sRepeat, unmarkVars, removeVars>>
  /\ AfterSweep

\* ensureLabelExists: the un-awaited createLabel answers (422 when the label exists)
SweepCreateLabelResp(fault) ==
  /\ sCreate = "inflight"
  /\ IF fault \/ RRLabel \in repoLabels
     THEN sCreate' = "failed" /\ UNCHANGED repoLabels
     ELSE sCreate' = "done" /\ repoLabels' = repoLabels \cup {RRLabel}
  /\ UNCHANGED <<now, config, issues, sPc, sNow, sThreshold, sItems, sFilter, sClose,
                 sCalls, sBeyond, sRepeat, unmarkVars, removeVars>>
  /\ AfterSweep

\* --------------------------------------------------------------- unmark
\* unmark(): readPayload, then issues.get is issued
UnmarkStart ==
  /\ uPc = "queued"
  /\ uPc' = "get"
  /\ uPre' = issues[uPayload.issue]
  /\ afterSweep' = "no"
  /\ UNCHANGED <<now, config, remoteVars, sweepVars, uPayload, uInfo, uCreate, uReopen,
                 uCalls, removeVars>>

\* issues.get answers; hasResponseRequiredLabel issues listLabelsOnIssue
UnmarkGetResp(fault) ==
  /\ uPc = "get"
  /\ IF fault
     THEN uPc' = "failed" /\ UNCHANGED uInfo
     ELSE /\ uInfo' = [user |-> AuthorLogin,
                       state |-> issues[uPayload.issue].state,
                       closed_by |-> issues[uPayload.issue].closed_by]
          /\ uPc' = "listLabels"
  /\ afterSweep' = "no"
  /\ UNCHANGED <<now, config, remoteVars, sweepVars, uPayload, uCreate, uReopen, uCalls,
                 uPre, removeVars>>

\* the end of unmark's if-block: the un-awaited reopening update, when it applies
UnmarkTail(calls) ==
  /\ uPc' = "done"
  /\ IF ReopenGuard(uInfo)
     THEN /\ uReopen' = "inflight"
          /\ uCalls' = Append(calls, Call("update-open", uPayload.issue, NoLabel))
     ELSE uReopen' = "none" /\ uCalls' = calls

\* listLabelsOnIssue answers; if the issue is marked and the commenter is its
\* author, removeLabel is issued
UnmarkListLabelsResp(fault) ==
  /\ uPc = "listLabels"
  /\ IF fault
     THEN uPc' = "failed" /\ UNCHANGED uCalls
     ELSE IF UnmarkGuard(hasResponseRequiredLabel(issues[uPayload.issue].labels),
                         uInfo, uPayload.user)
          THEN /\ uPc' = "removeLabel"
               /\ uCalls' = Append(uCalls, Call("removeLabel", uPayload.issue, RRLabel))
          ELSE uPc' = "done" /\ UNCHANGED uCalls
  /\ afterSweep' = "no"
  /\ UNCHANGED <<now, config, remoteVars, sweepVars, uPayload, uInfo, uCreate, uReopen,
                 uPre, removeVars>>

\* the step after removeLabel with the reopening update moved before the
\* follow-up label block
UnmarkReopensBeforeFollowUp(fault) ==
  /\ uPc = "removeLabel"
  /\ IF fault \/ RRLabel \notin issues[uPayload.issue].labels
     THEN uPc' = "failed" /\ UNCHANGED <<issues, uReopen, uCalls>>
     ELSE /\ issues' = [issues EXCEPT ![uPayload.issue] = WithoutLabel(@, RRLabel, now)]
          /\ IF config.optionalFollowUpLabel # NoLabel
             THEN /\ uPc' = "getLabel"
                  /\ uReopen' = IF ReopenGuard(uInfo) THEN "inflight" ELSE "none"
                  /\ uCalls' = IF ReopenGuard(uInfo)
                               THEN Append(uCalls, Call("update-open", uPayload.issue, NoLabel))
                               ELSE uCalls
             ELSE UnmarkTail(uCalls)
  /\ afterSweep' = "no"
  /\ UNCHANGED <<now, config, repoLabels, sweepVars, uPayload, uInfo, uCreate, uPre,
                 removeVars>>

\* removeLabel answers (404 when the issue does not carry the label); with a
\* follow-up label configured ensureLabelExists issues getLabel
UnmarkRemoveLabelResp(fault) ==
  /\ uPc = "removeLabel"
  /\ IF fault \/ RRLabel \notin issues[uPayload.issue].labels
     THEN uPc' = "failed" /\ UNCHANGED <<issues, uReopen, uCalls>>
     ELSE /\ issues' = [issues EXCEPT ![uPayload.issue] = WithoutLabel(@, RRLabel, now)]
          /\ IF config.optionalFollowUpLabel # NoLabel
             THEN uPc' = "getLabel" /\ UNCHANGED <<uReopen, uCalls>>
             ELSE UnmarkTail(uCalls)
  /\ afterSweep' = "no"
  /\ UNCHANGED <<now, config, repoLabels, sweepVars, uPayload, uInfo, uCreate, uPre,
                 removeVars>>

\* ensureLabelExists: getLabel answers; on any error createLabel is issued and
\* not awaited. Then addLabels is issued.
UnmarkGetLabelResp(fault) ==
  /\ uPc = "getLabel"
  /\ IF ~fault /\ config.optionalFollowUpLabel \in repoLabels
     THEN /\ uCreate' = "none"
          /\ uCalls' = Append(uCalls, Call("addLabels", uPayload.issue,
                                           config.optionalFollowUpLabel))
     ELSE /\ uCreate' = "inflight"
          /\ uCalls' = uCalls \o
               <<Call("createLabel", 0, config.optionalFollowUpLabel),
                 Call("addLabels", uPayload.issue, config.optionalFollowUpLabel)>>
  /\ uPc' = "addLabels"
  /\ afterSweep' = "no"
  /\ UNCHANGED <<now, config, remoteVars, sweepVars, uPayload, uInfo, uReopen, uPre,
                 removeVars>>

\* addLabels answers (the remote creates a label the repository lacks)
UnmarkAddLabelsResp(fault) ==
  /\ uPc = "addLabels"
  /\ IF fault
     THEN uPc' = "failed" /\ UNCHANGED <<remoteVars, uReopen, uCalls>>
     ELSE /\ issues' = [issues EXCEPT ![uPayload.issue] =
                          WithLabel(@, config.optionalFollowUpLabel, now)]
          /\ repoLabels' = repoLabels \cup {config.optionalFollowUpLabel}
          /\ UnmarkTail(uCalls)
  /\ afterSweep' = "no"
  /\ UNCHANGED <<now, config, sweepVars, uPayload, uInfo, uCreate, uPre, removeVars>>

\* ensureLabelExists: the un-awaited createLabel answers (422 when the label exists)
UnmarkCreateLabelResp(fault) ==
  /\ uCreate = "inflight"
  /\ IF fault \/ config.optionalFollowUpLabel \in repoLabels
     THEN uCreate' = "failed" /\ UNCHANGED repoLabels
     ELSE uCreate' = "done" /\ repoLabels' = repoLabels \cup {config.optionalFollowUpLabel}
  /\ afterSweep' = "no"
  /\ UNCHANGED <<now, config, issues, sweepVars, uPc, uPayload, uInfo, uReopen, uCalls,
                 uPre, removeVars>>

\* the un-awaited update({state: 'open'}) answers
UnmarkReopenResp(fault) ==
  /\ uReopen = "inflight"
  /\ IF fault
     THEN uReopen' = "failed" /\ UNCHANGED issues
     ELSE /\ uReopen' = "done"
          /\ issues' = [issues EXCEPT ![uPayload.issue] = Reopened(@, now)]
  /\ afterSweep' = "no"
  /\ UNCHANGED <<now, config, repoLabels, sweepVars, uPc, uPayload, uInfo, uCreate,
                 uCalls, uPre, removeVars>>

\* --------------------------------------------------------- removeLabels
\* removeLabels(): the early returns and the test of the closer, then
\* listLabelsOnIssue is issued
RemoveLabelsStart ==
  /\ rPc = "queued"
  /\ rPre' = issues[rPayload.issue]
  /\ rPc' = IF RemoveLabelsProceeds(config, rPayload) /\ ClosedByAuthor(rPayload)
            THEN "listLabels" ELSE "done"
  /\ afterSweep' = "no"
  /\ UNCHANGED <<now, config, remoteVars, sweepVars, unmarkVars, rPayload, rLabels, rCalls>>

\* removeLabels without the two plainLabels.includes tests: both removals, always
RemoveNextUnconditional(plainLabels, calls, from) ==
  IF from = "listLabels"
  THEN /\ rPc' = "removeRR"
       /\ rCalls' = Append(calls, Call("removeLabel", rPayload.issue, RRLabel))
  ELSE /\ rPc' = "removeFU"
       /\ rCalls' = Append(calls, Call("removeLabel", rPayload.issue,
                                       config.optionalFollowUpLabel))

\* what removeLabels does once plainLabels is known and `done` of its two
\* removals are behind it: the next removeLabel call, or the end
RemoveNext(plainLabels, calls, from) ==
  IF from = "listLabels" /\ RRLabel \in plainLabels
  THEN /\ rPc' = "removeRR"
       /\ rCalls' = Append(calls, Call("removeLabel", rPayload.issue, RRLabel))
  ELSE IF config.optionalFollowUpLabel \in plainLabels
       THEN /\ rPc' = "removeFU"
            /\ rCalls' = Append(calls, Call("removeLabel", rPayload.issue,
                                            config.optionalFollowUpLabel))
       ELSE rPc' = "done" /\ rCalls' = calls

\* listLabelsOnIssue answers
RemoveListLabelsResp(fault) ==
  /\ rPc = "listLabels"
  /\ IF fault
     THEN rPc' = "failed" /\ UNCHANGED <<rLabels, rCalls>>
     ELSE /\ rLabels' = issues[rPayload.issue].labels
          /\ RemoveNext(rLabels', rCalls, "listLabels")
  /\ afterSweep' = "no"
  /\ UNCHANGED <<now, config, remoteVars, sweepVars, unmarkVars, rPayload, rPre>>

\* removeLabel of responseRequiredLabel answers (404 when the label is not there)
RemoveRRResp(fault) ==
  /\ rPc = "removeRR"
  /\ IF fault \/ RRLabel \notin issues[rPayload.issue].labels
     THEN rPc' = "failed" /\ UNCHANGED <<issues, rCalls>>
     ELSE /\ issues' = [issues EXCEPT ![rPayload.issue] = WithoutLabel(@, RRLabel, now)]
          /\ RemoveNext(rLabels, rCalls, "removeRR")
  /\ afterSweep' = "no"
  /\ UNCHANGED <<now, config, repoLabels, sweepVars, unmarkVars, rPayload, rLabels, rPre>>

\* removeLabel of optionalFollowUpLabel answers (404 when the label is not there)
RemoveFUResp(fault) ==
  /\ rPc = "removeFU"
  /\ IF fault \/ config.optionalFollowUpLabel \notin issues[rPayload.issue].labels
     THEN rPc' = "failed" /\ UNCHANGED issues
     ELSE /\ issues' = [issues EXCEPT ![rPayload.issue] =
                          WithoutLabel(@, config.optionalFollowUpLabel, now)]
          /\ rPc' = "done"
  /\ afterSweep' = "no"
  /\ UNCHANGED <<now, config, repoLabels, sweepVars, unmarkVars, rPayload, rLabels,
                 rCalls, rPre>>

\* ---------------------------------------------------------- environment
\* a day passes
Tick ==
  /\ now < MaxDays * MsPerDay
  /\ now' = now + MsPerDay
  /\ afterSweep' = "no"
  /\ ForgetSweep /\ ForgetUnmark /\ ForgetRemove
  /\ UNCHANGED <<config, remoteVars>>

\* how often responseRequiredLabel has been applied to an issue
Labelings(iss) ==
  Cardinality({k \in 1..Len(iss.events) :
                 iss.events[k].event = "labeled" /\ iss.events[k].label = RRLabel})

\* a maintainer applies responseRequiredLabel to an issue
EnvLabel(i) ==
  /\ issues[i].state # "absent"
  /\ RRLabel \in repoLabels /\ RRLabel \notin issues[i].labels
  /\ Labelings(issues[i]) < MaxLabelings
  /\ issues' = [issues EXCEPT ![i] = WithLabel(@, RRLabel, now)]
  /\ afterSweep' = "no"
  /\ ForgetSweep /\ ForgetUnmark /\ ForgetRemove
  /\ UNCHANGED <<now, config, repoLabels>>

\* a maintainer takes responseRequiredLabel off an issue
EnvUnlabel(i) ==
  /\ RRLabel \in issues[i].labels
  /\ Labelings(issues[i]) < MaxLabelings
  /\ issues' = [issues EXCEPT ![i] = WithoutLabel(@, RRLabel, now)]
  /\ afterSweep' = "no"
  /\ ForgetSweep /\ ForgetUnmark /\ ForgetRemove
  /\ UNCHANGED <<now, config, repoLabels>>

\* a user comments on an issue: the comment-created event queues unmark
EnvComment(i, who) ==
  /\ issues[i].state # "absent"
  /\ UnmarkQuiet
  /\ issues' = [issues EXCEPT ![i] = Commented(@, now)]
  /\ uPc' = "queued" /\ uPayload' = [issue |-> i, user |-> who]
  /\ uInfo' = NoInfo /\ uCreate' = "none" /\ uReopen' = "none"
  /\ uCalls' = NoCalls /\ uPre' = FreshIssue
  /\ afterSweep' = "no"
  /\ ForgetSweep /\ ForgetRemove
  /\ UNCHANGED <<now, config, repoLabels>>

\* an issues event queues removeLabels
QueueRemoveLabels(action, i, who) ==
  /\ RemoveQuiet
  /\ rPc' = "queued" /\ rPayload' = [action |-> action, issue |-> i, sender |-> who]
  /\ rLabels' = {} /\ rCalls' = NoCalls /\ rPre' = FreshIssue

\* a user closes an issue
EnvClose(i, who) ==
  /\ issues[i].state = "open"
  /\ issues' = [issues EXCEPT ![i] = Closed(@, who, now)]
  /\ QueueRemoveLabels("closed", i, who)
  /\ afterSweep' = "no"
  /\ ForgetSweep /\ ForgetUnmark
  /\ UNCHANGED <<now, config, repoLabels>>

\* a user reopens an issue
EnvReopen(i, who) ==
  /\ issues[i].state = "closed"
  /\ issues' = [issues EXCEPT ![i] = Reopened(@, now)]
  /\ QueueRemoveLabels("reopened", i, who)
  /\ afterSweep' = "no"
  /\ ForgetSweep /\ ForgetUnmark
  /\ UNCHANGED <<now, config, repoLabels>>

\* ------------------------------------------------------- specifications
\* what the world outside the workflows does, and the scheduled start of sweep
EnvStep ==
  \/ Tick
  \/ SweepStart
  \/ \E i \in Issue : EnvLabel(i)
  \/ \E i \in Issue : EnvUnlabel(i)
  \/ \E i \in Issue, who \in Users : EnvComment(i, who)
  \/ \E i \in Issue, who \in Users : EnvClose(i, who)
  \/ \E i \in Issue, who \in Users : EnvReopen(i, who)

\* the steps of the workflows; Faults = {FALSE}: every remote call is answered
WorkflowStep(Faults) ==
  \E fault \in Faults :
    \/ SweepGetLabelResp(fault)
    \/ SweepSearchResp(fault)
    \/ \E i \in Issue : SweepEventsResp(i, fault)
    \/ \E i \in Issue : CloseCommentResp(i, fault)
    \/ \E i \in Issue : CloseUpdateResp(i, fault)
    \/ SweepCreateLabelResp(fault)
    \/ UnmarkStart
    \/ UnmarkGetResp(fault)
    \/ UnmarkListLabelsResp(fault)
    \/ UnmarkRemoveLabelResp(fault)
    \/ UnmarkGetLabelResp(fault)
    \/ UnmarkAddLabelsResp(fault)
    \/ UnmarkCreateLabelResp(fault)
    \/ UnmarkReopenResp(fault)
    \/ RemoveLabelsStart
    \/ RemoveListLabelsResp(fault)
    \/ RemoveRRResp(fault)
    \/ RemoveFUResp(fault)

\* the invocations overlap each other and the world, and remote calls may fail
Next == EnvStep \/ WorkflowStep(BOOLEAN)
Spec == Init /\ [][Next]_vars

\* one invocation at a time, nothing else changing the remote while it runs,
\* and every remote call answered
NextSerial ==
  \/ Quiet /\ Tick
  \/ Quiet /\ SweepStart
  \/ Quiet /\ \E i \in Issue : EnvLabel(i)
  \/ Quiet /\ \E i \in Issue : EnvUnlabel(i)
  \/ Quiet /\ \E i \in Issue, who \in Users : EnvComment(i, who)
  \/ Quiet /\ \E i \in Issue, who \in Users : EnvClose(i, who)
  \/ Quiet /\ \E i \in Issue, who \in Users : EnvReopen(i, who)
  \/ WorkflowStep({FALSE})
SpecSerial == InitSerial /\ [][NextSerial]_vars

\* the scheduled sweep alone, run after run, while maintainers label and time
\* passes between the runs; every remote call answered
SweepStep(Faults) ==
  \E fault \in Faults :
    \/ SweepGetLabelResp(fault)
    \/ SweepSearchResp(fault)
    \/ \E i \in Issue : SweepEventsResp(i, fault)
    \/ \E i \in Issue : CloseCommentResp(i, fault)
    \/ \E i \in Issue : CloseUpdateResp(i, fault)
    \/ SweepCreateLabelResp(fault)
NextSweep ==
  \/ Quiet /\ Tick
  \/ Quiet /\ SweepStart
  \/ Quiet /\ \E i \in Issue : EnvLabel(i)
  \/ Quiet /\ \E i \in Issue : EnvUnlabel(i)
  \/ SweepStep({FALSE})
SpecSweep == InitSweep /\ [][NextSweep]_vars

\* the scheduled sweep alone over a repository larger than a page, each issue
\* labelled at most once
NextPage ==
  \/ Quiet /\ Tick
  \/ Quiet /\ SweepStart
  \/ Quiet /\ \E i \in Issue : EnvLabel(i)
  \/ SweepStep({FALSE})
SpecPage == InitPage /\ [][NextPage]_vars

\* the scheduled sweep alone over a repository that fits in one page, with
\* and without closeComment, where any remote call may fail
InitFaulty ==
  InitOf(Population({i \in Issue : i <= PerPage}),
         {c \in Configs : c.optionalFollowUpLabel = NoLabel /\ c.daysUntilClose = 1},
         {RRLabel})
NextFaulty ==
  \/ Quiet /\ Tick
  \/ Quiet /\ SweepStart
  \/ Quiet /\ \E i \in Issue : EnvLabel(i)
  \/ SweepStep(BOOLEAN)
SpecFaulty == InitFaulty /\ [][NextFaulty]_vars

\* one invocation at a time on a repository of one issue, where any remote
\* call may fail
NextSerialFaulty ==
  \/ Quiet /\ Tick
  \/ Quiet /\ SweepStart
  \/ Quiet /\ \E i \in Issue : EnvLabel(i)
  \/ Quiet /\ \E i \in Issue : EnvUnlabel(i)
  \/ Quiet /\ \E i \in Issue, who \in Users : EnvComment(i, who)
  \/ Quiet /\ \E i \in Issue, who \in Users : EnvClose(i, who)
  \/ Quiet /\ \E i \in Issue, who \in Users : EnvReopen(i, who)
  \/ WorkflowStep(BOOLEAN)
SpecSerialFaulty == InitSerial /\ [][NextSerialFaulty]_vars

\* sweep and unmark overlapping on a repository of one issue: a maintainer
\* labels, users comment, time passes and the schedule starts sweep at any
\* moment; every remote call answered
InitRace ==
  InitOf(Population({1}),
         {c \in Configs : c.optionalFollowUpLabel = NoLabel /\ c.daysUntilClose = 1},
         {RRLabel})
NextRace ==
  \/ Tick
  \/ SweepStart
  \/ \E i \in Issue : EnvLabel(i)
  \/ \E i \in Issue, who \in Users : EnvComment(i, who)
  \/ \E fault \in {FALSE} :
       \/ SweepGetLabelResp(fault)
       \/ SweepSearchResp(fault)
       \/ \E i \in Issue : SweepEventsResp(i, fault)
       \/ \E i \in Issue : CloseCommentResp(i, fault)
       \/ \E i \in Issue : CloseUpdateResp(i, fault)
       \/ SweepCreateLabelResp(fault)
       \/ UnmarkStart
       \/ UnmarkGetResp(fault)
       \/ UnmarkListLabelsResp(fault)
       \/ UnmarkRemoveLabelResp(fault)
       \/ UnmarkReopenResp(fault)
SpecRace == InitRace /\ [][NextRace]_vars

\* the scheduled sweep over a repository larger than a page, run again and
\* again: the schedule keeps starting it, every call is answered, time passes
SpecFair ==
  /\ InitPage /\ [][NextPage]_vars
  /\ WF_vars(Quiet /\ Tick)
  /\ WF_vars(Quiet /\ SweepStart)
  /\ WF_vars(SweepStep({FALSE}))

\* --------------------------------------------------------------- claims
\* the positions, in a history, of the `labeled` events for responseRequiredLabel
Matching(events) ==
  {k \in 1..Len(events) : events[k].event = "labeled" /\ events[k].label = RRLabel}

\* the time of the most recent of them
LastLabeledAt(events) ==
  LET m == Matching(events)
  IN  events[CHOOSE k \in m : \A j \in m : j <= k].created_at

\* isCloseable of the specification: what sweep's filter answers at time t
CloseableAt(events, t) == FilterKeep(events, since(config.daysUntilClose, t))

\* a history of one application of the label at t0
LabeledOnce(t0) == <<LabeledEvent(t0, "labeled", RRLabel)>>

\* a history of an application at t0, and a removal and a new application at t1
LabeledTwice(t0, t1) ==
  <<LabeledEvent(t0, "labeled", RRLabel), LabeledEvent(t1, "unlabeled", RRLabel),
    LabeledEvent(t1, "labeled", RRLabel)>>

\* C1: in sweep an issue whose most recent `labeled` event for
\* responseRequiredLabel is of time t is selected for closing iff
\* t < now - daysUntilClose * 24h, strictly; the selected issues are those whose
\* close is started; and for 14 days: selected 15 days after t, not 13 days
\* after, not exactly 14 days after.
C1_SelectedIffLabeledBeforeThreshold ==
  /\ \A i \in Issue :
       sFilter[i] \in {"keep", "drop"} /\ Matching(issues[i].events) # {} =>
         (sFilter[i] = "keep" <=>
            LastLabeledAt(issues[i].events) < sNow - config.daysUntilClose * MsPerDay)
  /\ sPc = "done" =>
       \A i \in Issue :
         sFilter[i] = "keep" <=> Call(FirstCloseCall(config), i, NoLabel) \in Range(sCalls)
  /\ \A t0 \in {0, MsPerDay} :
       /\ FilterKeep(LabeledOnce(t0), since(14, t0 + 15 * MsPerDay))
       /\ ~FilterKeep(LabeledOnce(t0), since(14, t0 + 13 * MsPerDay))
       /\ ~FilterKeep(LabeledOnce(t0), since(14, t0 + 14 * MsPerDay))

\* C1 witness: a sweep has run over an issue labelled exactly daysUntilClose days
\* before it and has not selected it, and over another it has selected
C1_Witness ==
  /\ sPc = "done"
  /\ \E i, j \in Issue :
       /\ sFilter[i] = "drop" /\ Matching(issues[i].events) # {}
       /\ LastLabeledAt(issues[i].events) = sNow - config.daysUntilClose * MsPerDay
       /\ sFilter[j] = "keep"

\* C2: whether an issue is closeable is decided by its latest `labeled` event
\* for responseRequiredLabel alone, whatever precedes or follows it; sweep
\* starts no close of an issue whose latest such event is not older than the
\* threshold, and an issue is not closeable as long as no more than
\* daysUntilClose days have passed since the label was last applied (so not
\* from the moment it is applied anew); labelled at T0 and again at T0 + 10d,
\* it is not closeable at T0 + 20d for 14 days.
C2_RelabelResetsClock ==
  /\ \A i \in Issue :
       /\ Matching(issues[i].events) # {} =>
            \A d \in 0..MaxDays :
              CloseableAt(issues[i].events, d * MsPerDay) <=>
                CloseableAt(LabeledOnce(LastLabeledAt(issues[i].events)), d * MsPerDay)
       /\ sClose[i] # "none" =>
            LastLabeledAt(issues[i].events) + config.daysUntilClose * MsPerDay < sNow
       /\ Matching(issues[i].events) # {}
          /\ now <= LastLabeledAt(issues[i].events) + config.daysUntilClose * MsPerDay
          => ~CloseableAt(issues[i].events, now)
  /\ \A t0 \in {0, MsPerDay} :
       ~FilterKeep(LabeledTwice(t0, t0 + 10 * MsPerDay), since(14, t0 + 20 * MsPerDay))
\* C2 witness: sweep has dropped an issue that was labelled anew, whose earlier
\* application of the label is older than the threshold
C2_Witness ==
  \E i \in Issue :
    /\ sPc = "done" /\ sFilter[i] = "drop"
    /\ Cardinality(Matching(issues[i].events)) >= 2
    /\ \E k \in Matching(issues[i].events) : issues[i].events[k].created_at < sThreshold

\* C3: an issue the search returns whose history holds no `labeled` event for
\* responseRequiredLabel is never selected: sweep issues no call for it (no
\* comment, no state update) and it stays open, whatever its age.
C3_NoEventNeverClosed ==
  \A i \in Issue :
    Matching(issues[i].events) = {} =>
      /\ sFilter[i] # "keep" /\ sClose[i] = "none"
      /\ \A k \in 1..Len(sCalls) : sCalls[k].issue # i
      /\ issues[i].state # "closed"

\* C3 witness: sweep has ended after dropping a returned issue without matching
\* event, whose only `labeled` event (for the label's old name) is older than
\* the threshold
C3_Witness ==
  \E i \in Issue :
    /\ sPc = "done" /\ sFilter[i] = "drop"
    /\ Matching(issues[i].events) = {}
    /\ issues[i].events # <<>> /\ issues[i].events[1].created_at < sThreshold

\* C4: closeability is monotonic in elapsed time: a history that is closeable
\* at one time is closeable at every later time.
C4_MonotonicInTime ==
  \A i \in Issue : \A d1, d2 \in 0..(MaxDays + 1) :
    d1 < d2 /\ CloseableAt(issues[i].events, d1 * MsPerDay)
      => CloseableAt(issues[i].events, d2 * MsPerDay)

\* C4 witness: an issue that was closeable a day ago, with the history it has
\* now, and is closeable now
C4_Witness ==
  \E i \in Issue :
    /\ now >= MsPerDay
    /\ \A k \in 1..Len(issues[i].events) : issues[i].events[k].created_at <= now - MsPerDay
    /\ CloseableAt(issues[i].events, now - MsPerDay)
    /\ CloseableAt(issues[i].events, now)

Qualifying ==
  /\ uPc \notin {"idle", "queued"}
  /\ RRLabel \in uPre.labels /\ uPayload.user = AuthorLogin

\* C5: unmark issues a mutating call only if the issue carries
\* responseRequiredLabel and the commenter is the issue's author; otherwise it
\* leaves the issue as it found it.
C5_UnmarkOnlyForAuthorOfMarked ==
  /\ uCalls # NoCalls => Qualifying
  /\ uPc \notin {"idle", "queued"} /\ ~Qualifying =>
       /\ issues[uPayload.issue] = uPre
       /\ uCreate = "none" /\ uReopen = "none"

\* C5 witness: unmark has ended for a maintainer's comment on an issue that
\* carries responseRequiredLabel
C5_Witness ==
  /\ uPc = "done" /\ uPayload.user = MaintLogin
  /\ RRLabel \in uPre.labels /\ uPre.state = "closed"
  /\ uCalls = NoCalls

\* C6: after a qualifying unmark and all the calls it issued: the issue does
\* not carry responseRequiredLabel, it carries the follow-up label iff one is
\* configured or it carried it before, and it is open if it had been closed by
\* someone other than its author.
C6_UnmarkResult ==
  uPc = "done" /\ UnmarkQuiet /\ Qualifying =>
    LET iss == issues[uPayload.issue]
    IN  /\ RRLabel \notin iss.labels
        /\ FULabel \in iss.labels <=>
             (config.optionalFollowUpLabel # NoLabel \/ FULabel \in uPre.labels)
        /\ uPre.state = "closed" /\ uPre.closed_by # AuthorLogin => iss.state = "open"

\* C6 witness: a qualifying unmark with a follow-up label configured has ended
\* on an issue that sweep had closed, and the issue is open
C6_Witness ==
  /\ uPc = "done" /\ UnmarkQuiet /\ Qualifying
  /\ config.optionalFollowUpLabel = FULabel
  /\ uPre.state = "closed" /\ uPre.closed_by = BotLogin
  /\ issues[uPayload.issue].state = "open"

\* a step in which a user reopens an issue
UserReopens(i) == rPc' = "queued" /\ rPayload'.action = "reopened" /\ rPayload'.issue = i

\* C7: a workflow step opens an issue only as the reopening call of a
\* qualifying unmark, and only if the issue is then closed by someone other
\* than its author; sweep and removeLabels issue no call that opens an issue.
C7_ReopenStep ==
  /\ \A i \in Issue :
       issues[i].state = "closed" /\ issues'[i].state = "open" /\ ~UserReopens(i) =>
         /\ uReopen = "inflight" /\ uReopen' = "done" /\ uPayload.issue = i
         /\ Qualifying
         /\ issues[i].closed_by # AuthorLogin
  /\ \A k \in 1..Len(sCalls') : sCalls'[k].op # "update-open"
  /\ \A k \in 1..Len(rCalls') : rCalls'[k].op # "update-open"
C7_ReopenOnlyByQualifyingUnmark == [][C7_ReopenStep]_vars

\* C7 witness: a qualifying unmark has ended on an issue its author had closed,
\* and the issue is still closed
C7_Witness ==
  /\ uPc = "done" /\ UnmarkQuiet /\ Qualifying
  /\ uPre.state = "closed" /\ uPre.closed_by = AuthorLogin
  /\ issues[uPayload.issue].state = "closed"

\* removeLabels was invoked for a close of the issue by its author
AuthorClosed ==
  /\ rPc \notin {"idle", "queued"}
  /\ rPayload.action = "closed" /\ rPayload.sender = AuthorLogin

\* C8 as stated: after removeLabels for a close by the issue's author, under
\* every configuration, the issue carries neither responseRequiredLabel nor the
\* follow-up label.
C8_AuthorCloseStripsLabels ==
  rPc = "done" /\ AuthorClosed =>
    /\ RRLabel \notin issues[rPayload.issue].labels
    /\ FULabel \notin issues[rPayload.issue].labels

\* C9: removeLabels issues no call when the closer is not the issue's author
\* and leaves the labels as they were; sweep issues no removeLabel, and the
\* issues it closes carry the labels they carried.
C9_OtherCloseKeepsLabels ==
  /\ rCalls # NoCalls => rPayload.sender = AuthorLogin
  /\ rPc \notin {"idle", "queued"} /\ rPayload.sender # AuthorLogin =>
       issues[rPayload.issue].labels = rPre.labels
  /\ \A k \in 1..Len(sCalls) : sCalls[k].op \in {"createLabel", "createComment", "update"}
  /\ \A i \in Issue : sClose[i] # "none" => RRLabel \in issues[i].labels

\* C9 witness: removeLabels has ended for a maintainer's close of an issue that
\* carries both labels
C9_Witness ==
  /\ rPc = "done" /\ rPayload.action = "closed" /\ rPayload.sender = MaintLogin
  /\ config.optionalFollowUpLabel = FULabel
  /\ {RRLabel, FULabel} \subseteq issues[rPayload.issue].labels

\* C11 as stated: when a sweep run has ended, every issue of the page that the
\* filter's rule keeps and about which no call of the run failed has had its
\* close started in that run, whatever failed about the other issues.
C11_FailureIsolated ==
  sPc \in {"done", "failed"} =>
    \A j \in Range(sItems) :
      sFilter[j] # "failed" /\ FilterKeep(issues[j].events, sThreshold) =>
        sClose[j] # "none"

\* C12 as stated: while unmark's addLabels call for the follow-up label is
\* issued and awaits its answer, the label exists on the repository: the call
\* is never issued before its createLabel has completed.
C12_LabelExistsBeforeApplied ==
  uPc = "addLabels" => config.optionalFollowUpLabel \in repoLabels

\* C13 as stated: an invocation in which a call failed does not end in success:
\* sweep has not succeeded when a close comment or a state update it issued has
\* failed, and unmark has not succeeded when its reopening update has failed.
\* (A failed awaited call, a label removal or addition, ends its workflow in
\* "failed" by the step that receives it.)
C13_ErrorsSurfaced ==
  /\ sPc = "done" => \A i \in Issue : sClose[i] # "failed"
  /\ uPc = "done" => uReopen # "failed"

\* C14 as stated: a workflow is suspended while a call it issued awaits its
\* answer: while createLabel is in flight the workflow is still inside
\* ensureLabelExists, and sweep or unmark has not completed while a close
\* comment, a closing update or the reopening update is in flight.
C14_SuspendedUntilResponse ==
  /\ sCreate = "inflight" => sPc = "getLabel"
  /\ uCreate = "inflight" => uPc = "getLabel"
  /\ sPc = "done" => \A i \in Issue : Landed(sClose[i])
  /\ uPc = "done" => Landed(uReopen)

\* the mutating calls of the running sweep that await their answer and target issue i
SweepInFlight(i) ==
  {c \in {"createComment", "update"} :
     \/ c = "createComment" /\ sClose[i] = "comment"
     \/ c = "update" /\ sClose[i] = "update"}

\* the mutating calls of the running unmark that await their answer and target issue i
UnmarkInFlight(i) ==
  {c \in {"removeLabel", "addLabels", "update-open"} :
     /\ uPayload.issue = i
     /\ \/ c = "removeLabel" /\ uPc = "removeLabel"
        \/ c = "addLabels" /\ uPc = "addLabels"
        \/ c = "update-open" /\ uReopen = "inflight"}

\* the mutating calls of the running removeLabels that await their answer and target issue i
RemoveInFlight(i) ==
  {c \in {"removeRR", "removeFU"} : rPayload.issue = i /\ rPc = c}

\* C15: within one invocation of sweep, unmark or removeLabels, at most one
\* mutating call that targets a given issue awaits its answer at any time.
C15_OneCallPerIssueInFlight ==
  \A i \in Issue :
    /\ Cardinality(SweepInFlight(i)) <= 1
    /\ Cardinality(UnmarkInFlight(i)) <= 1
    /\ Cardinality(RemoveInFlight(i)) <= 1

\* C15 witness: unmark has removed the label and added the follow-up label, and
\* its un-awaited reopening update is in flight after unmark has returned
C15_Witness ==
  /\ uPc = "done" /\ uReopen = "inflight"
  /\ UnmarkInFlight(uPayload.issue) = {"update-open"}
  /\ \E k \in 1..Len(uCalls) : uCalls[k].op = "addLabels"

\* every open labelled issue whose history names the label is closeable by now:
\* no candidate is merely waiting for its threshold
AllDue ==
  \A j \in Issue :
    IsCandidate(issues[j]) /\ Matching(issues[j].events) # {} =>
      CloseableAt(issues[j].events, now)

\* C16 as stated: under repeated scheduled sweep runs whose calls all succeed,
\* with no relabelling, an open labelled issue that is closeable (at a time when
\* no other candidate is still waiting for its threshold) is eventually closed,
\* also when issues without matching `labeled` event fill the page before it.
C16_CloseableEventuallyClosed ==
  \A i \in Issue :
    (IsCandidate(issues[i]) /\ CloseableAt(issues[i].events, now) /\ AllDue)
      ~> (issues[i].state = "closed")

\* the positions, in a log of calls, of the calls `op` on issue i
CallsAt(calls, op, i) ==
  {k \in 1..Len(calls) : calls[k].op = op /\ calls[k].issue = i}

\* the position of issue i in the items the search returned
ItemIndex(items, i) == CHOOSE k \in 1..Len(items) : items[k] = i

\* the position of the first call sweep issued on issue i
FirstCallOn(calls, i) ==
  CHOOSE k \in 1..Len(calls) :
    /\ calls[k].issue = i
    /\ \A l \in 1..Len(calls) : calls[l].issue = i => k <= l

\* the calls of a sweep run, as its close() calls are to issue them
ClosesInOrder(cfg, items, close, calls) ==
  /\ \A i \in Issue :
       /\ close[i] = "comment" => CallsAt(calls, "update", i) = {}
       /\ cfg.closeComment =>
            \A l \in CallsAt(calls, "update", i) :
              \E k \in CallsAt(calls, "createComment", i) : k < l
       /\ ~cfg.closeComment => CallsAt(calls, "createComment", i) = {}
       /\ close[i] # "none" =>
            calls[FirstCallOn(calls, i)].op =
              (IF cfg.closeComment THEN "createComment" ELSE "update")
  /\ \A i, j \in Issue :
       close[i] # "none" /\ close[j] # "none"
         /\ ItemIndex(items, i) < ItemIndex(items, j) =>
           FirstCallOn(calls, i) < FirstCallOn(calls, j)

\* one step of a sweep run, as far as its close() calls go
C17_CloseStep ==
  /\ ClosesInOrder(config', sItems', sClose', sCalls')
  /\ \A i \in Issue :
       \* a comment call that fails is not followed by the update
       /\ sClose[i] = "comment" /\ sClose'[i] = "failed" =>
            CallsAt(sCalls', "update", i) = {}
       /\ sClose[i] = "failed" /\ sClose'[i] = "failed" =>
            CallsAt(sCalls', "update", i) = CallsAt(sCalls, "update", i)
       \* the update is issued by the step in which the comment call completes
       /\ sClose[i] = "comment" /\ sClose'[i] = "update" =>
            CallsAt(sCalls', "update", i) # {} /\ CallsAt(sCalls, "update", i) = {}
  \* the closes start in the order of the search: oldest-updated-first
  /\ sPc # "done" /\ sPc' = "done" =>
       \A k, l \in 1..Len(sItems') :
         k < l => issues[sItems'[k]].updated <= issues[sItems'[l]].updated

\* C17: per issue sweep closes, the comment call (if closeComment is
\* configured) completes before the closing update is issued, a failed comment
\* call is not followed by the update, no comment is posted without
\* closeComment, and the closes start in the order the search returned the
\* issues, oldest-updated-first.
C17_CommentThenUpdateInSearchOrder == [][C17_CloseStep]_vars

\* C17 witness: with closeComment configured sweep selected two issues; the
\* comment call of one failed and no update was issued for it, the other issue
\* was commented and then closed
C17_Witness ==
  /\ config.closeComment
  /\ \E i, j \in Issue :
       /\ i # j
       /\ sClose[i] = "failed" /\ CallsAt(sCalls, "update", i) = {}
       /\ sClose[j] = "done" /\ CallsAt(sCalls, "update", j) # {}
       /\ issues[j].state = "closed" /\ issues[i].state = "open"
       /\ issues[i].updated < issues[j].updated

\* one step of ensureLabelExists, in sweep or in unmark
C18_CreateStep ==
  /\ sCreate # "inflight" /\ sCreate' = "inflight" => RRLabel \notin repoLabels
  /\ uCreate # "inflight" /\ uCreate' = "inflight" =>
       config.optionalFollowUpLabel \notin repoLabels
  /\ sCreate = "inflight" /\ sCreate' = "failed" => sPc' = sPc
  /\ uCreate = "inflight" /\ uCreate' = "failed" => uPc' = uPc

\* C18 as stated: ensureLabelExists issues createLabel only when the label is
\* absent from the repository, and a createLabel that is rejected (the label
\* exists already) changes nothing in the sweep or unmark that called it.
C18_CreateOnlyWhenAbsent == [][C18_CreateStep]_vars

\* C19: removeLabels for a close by the issue's author issues removeLabel only
\* for those of responseRequiredLabel and the follow-up label that the issue
\* carries, no call fails because a label is absent, and on an issue that
\* carries neither it ends successfully without a mutating call.
C19_SkipsAbsentLabels ==
  AuthorClosed =>
    /\ \A k \in 1..Len(rCalls) :
         /\ rCalls[k].op = "removeLabel"
         /\ rCalls[k].label \in rPre.labels \cap Labels
    /\ rPc # "failed"
    /\ rPc = "done" /\ rPre.labels \cap Labels = {} => rCalls = NoCalls

\* C19 witness: with a follow-up label configured the author closed an issue
\* that carried the follow-up label and not responseRequiredLabel; removeLabels
\* has ended after one removeLabel, for the follow-up label
C19_Witness ==
  /\ rPc = "done" /\ AuthorClosed
  /\ config.optionalFollowUpLabel = FULabel
  /\ rPre.labels = {FULabel}
  /\ rCalls = <<Call("removeLabel", rPayload.issue, FULabel)>>
  /\ issues[rPayload.issue].labels = {}

\* one step of sweep that issues the closing update of issue i
IssuesCloseUpdate(i) ==
  CallsAt(sCalls', "update", i) # {} /\ CallsAt(sCalls, "update", i) = {}

\* one step of the workflows, as far as the closing update goes
C20_CloseStep ==
  \A i \in Issue :
    IssuesCloseUpdate(i) =>
      issues'[i].state = "open" /\ RRLabel \in issues'[i].labels

\* C20 as stated: when sweep issues the update that closes an issue, the issue
\* is open and carries responseRequiredLabel, also when an unmark for the issue
\* ran between sweep's search and this call.
C20_ClosesOnlyMarkedIssues == [][C20_CloseStep]_vars

====
